---- MODULE Spec2Model ----
(***************************************************************************)
(* State-machine model of backend/ml/app.py: the Flask service that loads  *)
(* a pickled classifier at start-up and serves GET /ping and POST /predict.*)
(*                                                                         *)
(* Numbers.  A Python float is an IEEE 754 double, held exactly: a record  *)
(* [c, neg, k, q] with c = "fin" for the value k * 2^q (negated when neg), *)
(* k odd and of at most 53 bits, or c one of "nan", "inf", "ninf".  k is a *)
(* natural of any size, written in limbs of 15 bits, lowest first; zero is *)
(* k = <<>>, q = 0.  float(str) rounds a decimal literal of any length to  *)
(* the nearest double, ties to even, as strtod does, with subnormals, zero *)
(* and the infinities at the ends of the range.  Zero has no sign: -0.0 and*)
(* 0.0 compare alike at line 118.  Fin(t) is the float of t tenths (32.5 is*)
(* Fin(325)).  A probability is an integer number of hundredths.  A str is *)
(* the sequence of its code points.                                        *)
(***************************************************************************)
EXTENDS Integers, Sequences, FiniteSets, TLC

\* How many tenths on each side of the two Age limits (0 and AgeMax) the
\* enumerated Age inputs probe.
Probe == 1

\* ------------------------------------------------------------------------
\* Program constants
\* ------------------------------------------------------------------------
AgeMax == 120
DefaultAge == 30
\* 0.7 and 0.4, in hundredths
HighThreshold == 70
MediumThreshold == 40

\* ------------------------------------------------------------------------
\* Naturals of any size: the limbs of LimbBits bits each, lowest first and
\* without high zero limbs (zero is <<>>).
\* ------------------------------------------------------------------------
LimbBits == 15

RECURSIVE Pow2(_)
Pow2(n) == IF n <= 0 THEN 1 ELSE 2 * Pow2(n - 1)
Base == Pow2(LimbBits)

RECURSIVE Pow5(_)
Pow5(n) == IF n <= 0 THEN 1 ELSE 5 * Pow5(n - 1)

Max(a, b) == IF a >= b THEN a ELSE b
Abs(n) == IF n < 0 THEN 0 - n ELSE n

\* the limbs of an integer n >= 0
RECURSIVE FromInt(_)
FromInt(n) == IF n = 0 THEN <<>> ELSE <<n % Base>> \o FromInt(n \div Base)

\* the integer of at most two limbs
ToInt(x) ==
    IF x = <<>> THEN 0 ELSE IF Len(x) = 1 THEN x[1] ELSE x[1] + Base * x[2]

Trim(x) ==
    IF \A i \in 1..Len(x) : x[i] = 0 THEN <<>>
    ELSE SubSeq(x, 1, CHOOSE i \in 1..Len(x) :
                         x[i] # 0 /\ \A j \in (i + 1)..Len(x) : x[j] = 0)

\* the number of bits of an integer and of a natural
RECURSIVE IntBits(_)
IntBits(n) == IF n = 0 THEN 0 ELSE 1 + IntBits(n \div 2)
BitLen(x) == IF x = <<>> THEN 0 ELSE LimbBits * (Len(x) - 1) + IntBits(x[Len(x)])

\* The limbs lo to hi of x times m with the carry c coming in: the limbs of
\* the product and the carry going out.  The range is halved at each step.
RECURSIVE MulRange(_, _, _, _, _)
MulRange(x, m, lo, hi, c) ==
    LET Limb(t) == [v |-> <<t % Base>>, c |-> t \div Base]
        Joined(dn, up) == [v |-> dn.v \o up.v, c |-> up.c]
        Upper(dn) == Joined(dn, MulRange(x, m, (lo + hi) \div 2 + 1, hi, dn.c))
    IN  IF lo = hi THEN Limb(x[lo] * m + c)
        ELSE Upper(MulRange(x, m, lo, (lo + hi) \div 2, c))

\* x * m + carry, for m and carry below Base
MulCarry(x, m, carry) ==
    LET WithCarry(r) == r.v \o FromInt(r.c)
    IN  IF x = <<>> THEN FromInt(carry) ELSE WithCarry(MulRange(x, m, 1, Len(x), carry))
MulSmall(x, m) == IF m = 0 THEN <<>> ELSE MulCarry(x, m, 0)

\* The limbs hi down to lo of x divided by m with the remainder r coming in:
\* the limbs of the quotient, highest first as long division yields them,
\* and the remainder going out.
RECURSIVE DivRange(_, _, _, _, _)
DivRange(x, m, lo, hi, r) ==
    LET Limb(t) == [q |-> <<t \div m>>, r |-> t % m]
        Below(up, dn) == [q |-> up.q \o dn.q, r |-> dn.r]
        Lower(up) == Below(up, DivRange(x, m, lo, (lo + hi) \div 2, up.r))
    IN  IF lo = hi THEN Limb(r * Base + x[lo])
        ELSE Lower(DivRange(x, m, (lo + hi) \div 2 + 1, hi, r))

\* quotient (high zero limbs kept) and remainder of x by m, for m <= Base
DivRem(x, m) ==
    LET LowestFirst(d) == [q |-> [i \in 1..Len(d.q) |-> d.q[Len(d.q) + 1 - i]], r |-> d.r]
    IN  IF x = <<>> THEN [q |-> <<>>, r |-> 0]
        ELSE LowestFirst(DivRange(x, m, 1, Len(x), 0))

\* x * 2^s and x \div 2^d
ShiftLeft(x, s) ==
    IF x = <<>> THEN <<>>
    ELSE [i \in 1..(s \div LimbBits) |-> 0] \o MulSmall(x, Pow2(s % LimbBits))
ShiftRight(x, d) ==
    IF d \div LimbBits >= Len(x) THEN <<>>
    ELSE Trim(DivRem(SubSeq(x, d \div LimbBits + 1, Len(x)), Pow2(d % LimbBits)).q)

\* bit i of x (bit 0 is the lowest); whether one of the n lowest bits is set
BitAt(x, i) ==
    IF i \div LimbBits >= Len(x) THEN 0
    ELSE (x[i \div LimbBits + 1] \div Pow2(i % LimbBits)) % 2
LowBits(x, n) ==
    \E i \in 1..Len(x) :
        IF i <= n \div LimbBits THEN x[i] # 0
        ELSE i = n \div LimbBits + 1 /\ x[i] % Pow2(n % LimbBits) # 0

\* a > b
Greater(a, b) ==
    IF Len(a) # Len(b) THEN Len(a) > Len(b)
    ELSE \E i \in 1..Len(a) : a[i] > b[i] /\ \A j \in (i + 1)..Len(a) : a[j] = b[j]

\* Powers of 5 go six at a time (5^6 is below Base); of n > 6 of them the
\* first FirstPowers(n), a multiple of six, are taken before the others.
FirstPowers(n) == 6 * ((n \div 6 + 1) \div 2)

\* x * 5^n
RECURSIVE TimesPow5(_, _)
TimesPow5(x, n) ==
    LET Rest(y, k) == IF y = <<>> THEN <<>> ELSE TimesPow5(y, k)
    IN  IF n <= 6 THEN MulSmall(x, Pow5(n))
        ELSE Rest(TimesPow5(x, FirstPowers(n)), n - FirstPowers(n))

\* x \div 5^n, and whether the division is exact
RECURSIVE OverPow5(_, _)
OverPow5(x, n) ==
    LET Divided(d) == [q |-> Trim(d.q), exact |-> d.r = 0]
        Rest(first, k) ==
            IF first.q = <<>> THEN first
            ELSE [OverPow5(first.q, k) EXCEPT !.exact = @ /\ first.exact]
    IN  IF n <= 6 THEN Divided(DivRem(x, Pow5(n)))
        ELSE Rest(OverPow5(x, FirstPowers(n)), n - FirstPowers(n))

\* the natural written by acc followed by the decimal digits d[lo] to d[hi];
\* a zero with nothing before it adds nothing
RECURSIVE FromDigitsAt(_, _, _, _)
FromDigitsAt(d, lo, hi, acc) ==
    IF lo > hi THEN acc
    ELSE IF acc = <<>> /\ d[lo] = 0 THEN FromDigitsAt(d, lo + 1, hi, acc)
    ELSE IF lo = hi THEN MulCarry(acc, 10, d[lo])
    ELSE FromDigitsAt(d, (lo + hi) \div 2 + 1, hi, FromDigitsAt(d, lo, (lo + hi) \div 2, acc))

\* the decimal digits of an integer n >= 0, none for 0
RECURSIVE DigitsOf(_)
DigitsOf(n) == IF n = 0 THEN <<>> ELSE Append(DigitsOf(n \div 10), n % 10)

\* ------------------------------------------------------------------------
\* Python floats: IEEE 754 doubles
\* ------------------------------------------------------------------------
\* bits of a significand; the exponent of the lowest bit of the smallest
\* double; the largest double is below 2^TopExp
SignificandBits == 53
MinExp == 0 - 1074
TopExp == 1024

Double(neg, k, q) == [c |-> "fin", neg |-> neg, k |-> k, q |-> q]
Zero == Double(FALSE, <<>>, 0)
NaN == [c |-> "nan", neg |-> FALSE, k |-> <<>>, q |-> 0]
PosInf == [c |-> "inf", neg |-> FALSE, k |-> <<>>, q |-> 0]
NegInf == [c |-> "ninf", neg |-> FALSE, k |-> <<>>, q |-> 0]
Infinite(neg) == IF neg THEN NegInf ELSE PosInf
\* no float at all (an event that carries no value)
NoValue == [c |-> "none", neg |-> FALSE, k |-> <<>>, q |-> 0]

\* the number of zero bits below the lowest set bit of n > 0
RECURSIVE ZeroBits(_)
ZeroBits(n) == IF n % 2 = 1 THEN 0 ELSE 1 + ZeroBits(n \div 2)

\* k * 2^q with k made odd
Canonical(neg, k, q) ==
    LET OddAt(z) == Double(neg, ShiftRight(k, z), q + z)
        ZerosBelow(limbs) == LimbBits * limbs + ZeroBits(k[limbs + 1])
        FirstSet == CHOOSE i \in 1..Len(k) : k[i] # 0 /\ \A j \in 1..(i - 1) : k[j] = 0
    IN  IF k = <<>> THEN Zero ELSE OddAt(ZerosBelow(FirstSet - 1))

\* The double nearest to a * 2^x: a without its d lowest bits, rounded to
\* nearest, ties to even, where d leaves SignificandBits bits and no bit
\* below MinExp.  When ~exact the value rounded lies above a * 2^x and below
\* (a + 1) * 2^x.
RoundBinary(neg, a, x, exact) ==
    LET RoundUp(d) ==
            /\ BitAt(a, d - 1) = 1
            /\ LowBits(a, d - 1) \/ ~exact \/ BitAt(a, d) = 1
        Kept(d) ==
            IF d <= 0 THEN a
            ELSE MulCarry(ShiftRight(a, d), 1, IF RoundUp(d) THEN 1 ELSE 0)
        Finite(k, q) ==
            IF BitLen(k) + q > TopExp THEN Infinite(neg) ELSE Canonical(neg, k, q)
        Drop(d) == Finite(Kept(d), x + Max(d, 0))
    IN  Drop(Max(BitLen(a) - SignificandBits, MinExp - x))

\* Bits by which the digits are shifted up before the division by 5^j: more
\* than 5^j has (7/3 > log2 5), and GuardBits over, so that the quotient
\* keeps more bits than a significand.
GuardBits == 57

\* The double nearest to digits * 10^e, the digits without leading zeros:
\* a value of 10^309 or more is an infinity, one below 10^-324 is zero.
\* Scaled(m) is m * 10^e as a natural q, an exponent x and a flag: q * 2^x
\* when exact, else between q * 2^x and (q + 1) * 2^x.
DecimalToDouble(neg, digits, e) ==
    LET ShiftFor(j) == GuardBits + (7 * j) \div 3
        Quotient(d, x) == [q |-> d.q, exact |-> d.exact, x |-> x]
        Scaled(m) ==
            IF e >= 0 THEN [q |-> TimesPow5(m, e), exact |-> TRUE, x |-> e]
            ELSE Quotient(OverPow5(ShiftLeft(m, ShiftFor(0 - e)), 0 - e),
                          e - ShiftFor(0 - e))
        Rounded(s) == RoundBinary(neg, s.q, s.x, s.exact)
    IN  IF digits = <<>> THEN Zero
        ELSE IF Len(digits) + e > 309 THEN Infinite(neg)
        ELSE IF Len(digits) + e < 0 - 323 THEN Zero
        ELSE Rounded(Scaled(FromDigitsAt(digits, 1, Len(digits), <<>>)))

\* the float of t tenths: a whole number is its own float
Fin(t) ==
    IF t % 10 = 0 THEN Canonical(t < 0, FromInt(Abs(t \div 10)), 0)
    ELSE DecimalToDouble(t < 0, DigitsOf(Abs(t)), 0 - 1)

\* a finite x >= 0 against an integer n > 0: x > n
GtInt(x, n) ==
    IF BitLen(x.k) + x.q > IntBits(n) THEN TRUE
    ELSE IF BitLen(x.k) + x.q < IntBits(n) THEN FALSE
    ELSE IF x.q >= 0 THEN ToInt(x.k) * Pow2(x.q) > n
    ELSE Greater(x.k, ShiftLeft(FromInt(n), 0 - x.q))

\* x <= 0 and x > AgeMax as IEEE comparisons: both are False for NaN.
LeZero(x) == x.c = "ninf" \/ (x.c = "fin" /\ (x.neg \/ x.k = <<>>))
GtAgeMax(x) == x.c = "inf" \/ (x.c = "fin" /\ ~x.neg /\ GtInt(x, AgeMax))

\* ------------------------------------------------------------------------
\* JSON values as request.json delivers them (json.loads): a Python int,
\* float (the literals NaN, Infinity and -Infinity are accepted), str, bool,
\* list, dict or None; "absent" is a key the object does not hold.
\* ------------------------------------------------------------------------
JV(j, n, s) == [j |-> j, n |-> n, s |-> s]
Absent == JV("absent", 0, <<>>)
JNull == JV("null", 0, <<>>)
\* an int of u units
JInt(u) == JV("int", u * 10, <<>>)
\* an int beyond the float range, such as 10**400 written out in digits
JBigInt == JV("bigint", 0, <<>>)
\* a finite float of t tenths
JFloat(t) == JV("float", t, <<>>)
JNaN == JV("nan", 0, <<>>)
JInf == JV("inf", 0, <<>>)
JNegInf == JV("ninf", 0, <<>>)
\* a str of the code points s
JStr(s) == JV("str", 0, s)
JTrue == JV("bool", 10, <<>>)
JList == JV("list", 0, <<>>)
JObj == JV("obj", 0, <<>>)

\* ------------------------------------------------------------------------
\* Strings.  A str is the sequence of its code points.  Text spells one out
\* of the escapes \t, \n, \f and \r and the printable ASCII characters, the
\* grave accent (code point 96) excepted.
\* ------------------------------------------------------------------------
\* the characters of code points 32 to 95
Printable ==
    <<" ", "!", "\"", "#", "$", "%", "&", "'", "(", ")", "*", "+", ",",
      "-", ".", "/", "0", "1", "2", "3", "4", "5", "6", "7", "8", "9", ":",
      ";", "<", "=", ">", "?", "@", "A", "B", "C", "D", "E", "F", "G", "H",
      "I", "J", "K", "L", "M", "N", "O", "P", "Q", "R", "S", "T", "U", "V",
      "W", "X", "Y", "Z", "[", "\\", "]", "^", "_">>
\* the characters of code points 97 to 126
PrintableUpper ==
    <<"a", "b", "c", "d", "e", "f", "g", "h", "i", "j", "k", "l", "m", "n",
      "o", "p", "q", "r", "s", "t", "u", "v", "w", "x", "y", "z", "{", "|",
      "}", "~">>

\* the code point of an ASCII character
Code(ch) ==
    CASE ch = "\t" -> 9 [] ch = "\n" -> 10 [] ch = "\f" -> 12 [] ch = "\r" -> 13
      [] \E i \in 1..Len(Printable) : Printable[i] = ch ->
            31 + CHOOSE i \in 1..Len(Printable) : Printable[i] = ch
      [] OTHER -> 96 + CHOOSE i \in 1..Len(PrintableUpper) : PrintableUpper[i] = ch
Text(s) == [i \in 1..Len(s) |-> Code(s[i])]

\* ------------------------------------------------------------------------
\* float(str).  The str is first brought to ASCII: a code point below 128 is
\* kept, a space of Unicode becomes a blank, a decimal digit of any script
\* its ASCII digit, and at the first other code point the text ends in "?".
\* Of the ASCII text the surrounding whitespace is stripped, then comes an
\* optional sign, then "nan", "inf" or "infinity" in any case, or a decimal
\* literal: digits with an optional point (at least one digit in all) and an
\* optional exponent, where single underscores may stand between digits.
\* Anything else is a ValueError.
\* ------------------------------------------------------------------------
\* the spaces of Unicode above ASCII: U+0085, U+00A0, U+1680, U+2000 to
\* U+200A, U+2028, U+2029, U+202F, U+205F, U+3000
UnicodeSpaces ==
    {133, 160, 5760} \cup (8192..8202) \cup {8232, 8233, 8239, 8287, 12288}

\* the code point of digit zero of every script above ASCII (Unicode 14.0);
\* the nine code points after it are its digits one to nine
DecimalZeros ==
    {1632, 1776, 1984, 2406, 2534, 2662, 2790, 2918, 3046, 3174, 3302,
     3430, 3558, 3664, 3792, 3872, 4160, 4240, 6112, 6160, 6470, 6608,
     6784, 6800, 6992, 7088, 7232, 7248, 42528, 43216, 43264, 43472, 43504,
     43600, 44016, 65296, 66720, 68912, 69734, 69872, 69942, 70096, 70384,
     70736, 70864, 71248, 71360, 71472, 71904, 72016, 72784, 73040, 73120,
     92768, 92864, 93008, 120782, 120792, 120802, 120812, 120822, 123200,
     123632, 125264, 130032}

\* the value of the decimal digit c, or -1 when c is none
DecimalOf(c) ==
    IF \E z \in DecimalZeros : c - z \in 0..9
    THEN c - (CHOOSE z \in DecimalZeros : c - z \in 0..9)
    ELSE 0 - 1

QuestionMark == Code("?")
ToAscii(c) ==
    IF c < 128 THEN c
    ELSE IF c \in UnicodeSpaces THEN Code(" ")
    ELSE IF DecimalOf(c) >= 0 THEN Code("0") + DecimalOf(c)
    ELSE QuestionMark

\* the ASCII text of s, cut after the first "?" that stands for a code point
\* with no ASCII form
TransformToAscii(s) ==
    LET Unknown(c) == c >= 128 /\ ToAscii(c) = QuestionMark
    IN  IF \E i \in 1..Len(s) : Unknown(s[i])
        THEN [i \in 1..(CHOOSE k \in 1..Len(s) :
                            Unknown(s[k]) /\ \A j \in 1..(k - 1) : ~Unknown(s[j]))
                |-> ToAscii(s[i])]
        ELSE [i \in 1..Len(s) |-> ToAscii(s[i])]

\* blank, \t, \n, vertical tab, \f, \r
WhitespaceChars == {Code(" ")} \cup (Code("\t")..Code("\r"))
DigitChars == Code("0")..Code("9")
Underscore == Code("_")
PointChar == Code(".")
PlusChar == Code("+")
MinusChar == Code("-")
ExponentMark == Code("e")
NanText == Text(<<"n", "a", "n">>)
InfText == Text(<<"i", "n", "f">>)
InfinityText == Text(<<"i", "n", "f", "i", "n", "i", "t", "y">>)

\* s without the whitespace before its first and after its last other
\* character
Blank(s) == \A i \in 1..Len(s) : s[i] \in WhitespaceChars
StripLeft(s) ==
    IF Blank(s) THEN <<>>
    ELSE SubSeq(s, CHOOSE i \in 1..Len(s) :
                      s[i] \notin WhitespaceChars /\ \A j \in 1..(i - 1) : s[j] \in WhitespaceChars,
                Len(s))
StripRight(s) ==
    IF Blank(s) THEN <<>>
    ELSE SubSeq(s, 1, CHOOSE i \in 1..Len(s) :
                         s[i] \notin WhitespaceChars
                             /\ \A j \in (i + 1)..Len(s) : s[j] \in WhitespaceChars)

\* an ASCII letter in lower case
Lower(c) == IF c \in Code("A")..Code("Z") THEN c + (Code("a") - Code("A")) ELSE c

\* digit (["_"] digit)*
DigitPart(s) ==
    /\ s # <<>>
    /\ \A i \in 1..Len(s) : s[i] \in DigitChars \cup {Underscore}
    /\ s[1] # Underscore
    /\ s[Len(s)] # Underscore
    /\ \A i \in 1..(Len(s) - 1) : ~(s[i] = Underscore /\ s[i + 1] = Underscore)

NoUnderscores(s) == LET IsDigit(c) == c \in DigitChars IN SelectSeq(s, IsDigit)

\* the integer written by the digits d
RECURSIVE DigitsValue(_)
DigitsValue(d) ==
    IF d = <<>> THEN 0
    ELSE DigitsValue(SubSeq(d, 1, Len(d) - 1)) * 10 + d[Len(d)]

\* position of the first c in s, 0 when there is none
FirstAt(s, c) ==
    IF \E i \in 1..Len(s) : s[i] = c
    THEN CHOOSE i \in 1..Len(s) : s[i] = c /\ \A k \in 1..(i - 1) : s[k] # c
    ELSE 0

Ok(x) == [exc |-> "", msg |-> "", val |-> x]
Raise(type, msg) == [exc |-> type, msg |-> msg, val |-> NoValue]

\* the values of a run of ASCII digits
DigitValues(s) == [i \in 1..Len(s) |-> s[i] - Code("0")]

\* positions of the first and of the last digit of d that is not 0
FirstNonZero(d) == CHOOSE i \in 1..Len(d) : d[i] # 0 /\ \A j \in 1..(i - 1) : d[j] = 0
LastNonZero(d) == CHOOSE i \in 1..Len(d) : d[i] # 0 /\ \A j \in (i + 1)..Len(d) : d[j] = 0
AllZero(d) == \A i \in 1..Len(d) : d[i] = 0
\* d without the zeros before its first and after its last other digit
Significant(d) == IF AllZero(d) THEN <<>> ELSE SubSeq(d, FirstNonZero(d), LastNonZero(d))
ZerosAfter(d) == IF AllZero(d) THEN 0 ELSE Len(d) - LastNonZero(d)

\* An exponent of more than six digits stands for ExponentCap: with it a
\* literal that is not zero lies beyond the double range on either side.
ExponentCap == 10000000
ExponentOf(d) ==
    LET Capped(u) == IF Len(u) > 6 THEN ExponentCap ELSE DigitsValue(u)
    IN  Capped(IF AllZero(d) THEN <<>> ELSE SubSeq(d, FirstNonZero(d), Len(d)))

\* the value of whole.frac * 10^exponent, the digits without underscores
DecimalValue(w, f, exponent) ==
    LET Value(d, e) == DecimalToDouble(FALSE, Significant(d), e + ZerosAfter(d))
    IN  Value(DigitValues(w \o f), exponent - Len(f))


\* a literal cut at its point and its exponent mark: hasPoint and hasExp say
\* whether the marks stand in it, negExp whether the exponent has a "-"
Literal(whole, frac, hasPoint, expDigits, negExp, hasExp) ==
    LET WithSign(n) == IF negExp THEN 0 - n ELSE n
    IN  IF /\ IF hasPoint
              THEN IF whole = <<>> THEN DigitPart(frac)
                   ELSE DigitPart(whole) /\ (frac = <<>> \/ DigitPart(frac))
              ELSE DigitPart(whole)
           /\ hasExp => DigitPart(expDigits)
        THEN Ok(DecimalValue(NoUnderscores(whole), NoUnderscores(frac),
                             WithSign(ExponentOf(DigitValues(NoUnderscores(expDigits))))))
        ELSE Raise("ValueError", "could not convert string to float")

\* the mantissa cut at its point, at position p (0 when it has none)
CutAtPoint(mant, p, expDigits, negExp, hasExp) ==
    Literal(IF p = 0 THEN mant ELSE SubSeq(mant, 1, p - 1),
            IF p = 0 THEN <<>> ELSE SubSeq(mant, p + 1, Len(mant)),
            p # 0, expDigits, negExp, hasExp)

\* the exponent with its optional sign taken off
CutSign(mant, expo, signed, hasExp) ==
    CutAtPoint(mant, FirstAt(mant, PointChar), IF signed THEN Tail(expo) ELSE expo,
               signed /\ Head(expo) = MinusChar, hasExp)
CutExponent(mant, expo, hasExp) ==
    CutSign(mant, expo, expo # <<>> /\ Head(expo) \in {PlusChar, MinusChar}, hasExp)

\* the literal s cut at its exponent mark, at position x (0 when it has none)
CutAtMark(s, x) ==
    CutExponent(IF x = 0 THEN s ELSE SubSeq(s, 1, x - 1),
                IF x = 0 THEN <<>> ELSE SubSeq(s, x + 1, Len(s)),
                x # 0)

ParseLower(s) ==
    IF s = NanText THEN Ok(NaN)
    ELSE IF s = InfText \/ s = InfinityText THEN Ok(PosInf)
    ELSE CutAtMark(s, FirstAt(s, ExponentMark))

\* the unsigned part of a float literal
ParseMagnitude(s) == ParseLower([i \in 1..Len(s) |-> Lower(s[i])])

Negate(r) ==
    IF r.exc # "" THEN r
    ELSE IF r.val.c = "fin" THEN Ok(Double(r.val.k # <<>>, r.val.k, r.val.q))
    ELSE IF r.val.c = "inf" THEN Ok(NegInf)
    ELSE r

\* an optional sign, then the literal
ParseStripped(u) ==
    LET Unsigned == IF Head(u) \in {PlusChar, MinusChar} THEN Tail(u) ELSE u
        Signed(r) == IF Head(u) = MinusChar THEN Negate(r) ELSE r
    IN  IF u = <<>> THEN Raise("ValueError", "could not convert string to float")
        ELSE Signed(ParseMagnitude(Unsigned))
ParseFloat(s) == ParseStripped(StripRight(StripLeft(TransformToAscii(s))))

\* float(v) for a JSON value v
PyFloat(v) ==
    CASE v.j \in {"int", "float", "bool"} -> Ok(Fin(v.n))
      [] v.j = "nan" -> Ok(NaN)
      [] v.j = "inf" -> Ok(PosInf)
      [] v.j = "ninf" -> Ok(NegInf)
      [] v.j = "bigint" -> Raise("OverflowError", "int too large to convert to float")
      [] v.j = "str" -> ParseFloat(v.s)
      [] OTHER -> Raise("TypeError", "float() argument must be a string or a real number")

\* ------------------------------------------------------------------------
\* Request bodies.  kind "object" is a JSON object whose six fields are f[1]
\* to f[6] in the order Pregnancies, Glucose, BloodPressure, Insulin, BMI,
\* Age; "array", "string", "integer", "real", "boolean" and "null" are other
\* JSON documents (1.5 is "real", true and false are "boolean");
\* "invalid" is a body that is not JSON and "empty" a missing body, for both
\* of which request.json raises BadRequest.
\* ------------------------------------------------------------------------
AllAbsent == <<Absent, Absent, Absent, Absent, Absent, Absent>>
Object(f) == [kind |-> "object", f |-> f]
NonObject(k) == [kind |-> k, f |-> AllAbsent]
NoBody == NonObject("none")
EmptyObject == Object(AllAbsent)
ExampleBody == Object(<<JInt(2), JInt(150), JInt(80), JInt(100), JFloat(325), JInt(45)>>)

ProbeTenths ==
    {d : d \in (0 - Probe)..Probe} \cup {AgeMax * 10 + d : d \in (0 - Probe)..Probe}

PregnanciesValues == {Absent, JInt(2), JBigInt}
GlucoseValues == {JNull, JInt(150), JStr(Text(<<"a", "b", "c">>))}
BloodPressureValues == {Absent, JInt(80), JInt(1000000)}
InsulinValues == {JNull, JInt(100)}
BMIValues == {Absent, JFloat(325), JInt(0 - 1)}
\* Age strings beyond ASCII: 45 between two vertical tabs; 45 between a
\* no-break space and a next-line mark; 120 and 121 in Arabic-Indic digits;
\* 45 after a Unicode minus sign and a superscript two, neither of which is
\* a sign or a digit to float()
UnicodeAgeValues ==
    {JStr(<<11, 52, 53, 11>>), JStr(<<160, 52, 53, 133>>), JStr(<<1633, 1634, 1632>>),
     JStr(<<1633, 1634, 1633>>), JStr(<<8722, 52, 53>>), JStr(<<178>>)}

\* The last two Age strings lie at the edge of 120: 120.00000000000001 is
\* read as the double next above 120; 120.000000000000001 lies nearer to 120
\* and is read as 120.
AgeValues ==
    {Absent, JNull, JInt(1), JInt(45), JInt(AgeMax), JInt(AgeMax + 1)}
        \cup {JFloat(t) : t \in ProbeTenths}
        \cup {JNaN, JInf, JNegInf, JBigInt, JTrue, JList,
              JStr(Text(<<"4", "5">>)), JStr(Text(<<"n", "a", "n">>)),
              JStr(Text(<<"a", "b", "c">>)), JStr(Text(<<"\t", "4", "5", "\n">>)),
              JStr(Text(<<"0", ".", "0", "5">>)), JStr(Text(<<"1", ".", "2", "E", "2">>)),
              JStr(Text(<<"1", "2", "0", ".", "0", "4">>)), JStr(Text(<<"1", "_", "0">>)),
              JStr(Text(<<"I", "n", "f", "i", "n", "i", "t", "y">>)),
              JStr(Text(<<"1", "e", "4", "0", "0">>)),
              JStr(Text(<<"1", "e", "-", "4", "0", "0">>))}
        \cup UnicodeAgeValues
        \cup {JStr(Text(<<"1", "2", "0", ".", "0", "0", "0", "0", "0", "0", "0", "0", "0",
                           "0", "0", "0", "0", "1">>)),
              JStr(Text(<<"1", "2", "0", ".", "0", "0", "0", "0", "0", "0", "0", "0", "0",
                           "0", "0", "0", "0", "0", "1">>))}

ObjectBodies ==
    {Object(<<p, g, b, i, m, a>>) :
        p \in PregnanciesValues, g \in GlucoseValues, b \in BloodPressureValues,
        i \in InsulinValues, m \in BMIValues, a \in AgeValues}

Bodies ==
    ObjectBodies \cup {EmptyObject, ExampleBody}
        \cup {NonObject(k) : k \in {"array", "string", "integer", "real", "boolean", "null",
                                    "invalid", "empty"}}

\* ------------------------------------------------------------------------
\* The model handle.  model.pkl is an opaque artifact; the handle is one of
\*   "None"      the load failed (line 78)
\*   "clf"       a classifier with predict and predict_proba
\*   "noproba"   an estimator without predict_proba
\*   "strlabel"  a classifier whose class labels are not integers
\* Each is deterministic.  A loaded estimator validates its input and raises
\* ValueError for a vector holding NaN or an infinity.
\* ------------------------------------------------------------------------
ModelKinds == {"None", "clf", "noproba", "strlabel"}

AllFinite(x) == \A i \in 1..Len(x) : x[i].c = "fin"

\* 2^n modulo 1010: twice 2^(n - 1) modulo 505, which repeats every 100
RECURSIVE Pow2Mod505(_)
Pow2Mod505(n) ==
    LET Square(h) == (h * h) % 505
    IN  IF n <= 0 THEN 1
        ELSE IF n % 2 = 0 THEN Square(Pow2Mod505(n \div 2))
        ELSE (2 * Pow2Mod505(n - 1)) % 505
Pow2Mod(n) == IF n <= 0 THEN 1 ELSE 2 * Pow2Mod505((n - 1) % 100)

\* A finite float in whole tenths, rounded down, modulo 1010 (the score
\* reads the sum of the tenths modulo 1010 only).  Whole is the whole part of
\* ten times the float without its sign; a negative float with a fraction
\* left over rounds one further down.
Tenths(v) ==
    LET Whole ==
            IF v.q >= 0 THEN (((10 * DivRem(v.k, 1010).r) % 1010) * Pow2Mod(v.q)) % 1010
            ELSE DivRem(ShiftRight(MulSmall(v.k, 10), 0 - v.q), 1010).r
        FractionLeft == v.q < 0 /\ LowBits(MulSmall(v.k, 10), 0 - v.q)
        Down(w) == IF ~v.neg THEN w ELSE (0 - (w + (IF FractionLeft THEN 1 ELSE 0))) % 1010
    IN  Down(Whole)

RECURSIVE SumTenths(_)
SumTenths(x) == IF x = <<>> THEN 0 ELSE Tenths(Head(x)) + SumTenths(Tail(x))

\* the classifier's probability of class 1 for a finite vector, in hundredths
Score(x) == ((SumTenths(x) \div 10) + 70) % 101

IntLabel(n) == [isInt |-> TRUE, n |-> n, text |-> ""]
StrLabel == [isInt |-> FALSE, n |-> 0, text |-> "positive"]
\* the call returned; the call was made and raised; the attribute lookup
\* model.<name> raised, before the argument was passed
Returned(label, p) == [exc |-> "", msg |-> "", label |-> label, p |-> p, called |-> TRUE]
Raised(type, msg) ==
    [exc |-> type, msg |-> msg, label |-> IntLabel(0), p |-> 0, called |-> TRUE]
LookupFailed(type, msg) ==
    [exc |-> type, msg |-> msg, label |-> IntLabel(0), p |-> 0, called |-> FALSE]

\* model.predict(features_array)[0]
ModelPredict(m, x) ==
    IF m = "None"
    THEN LookupFailed("AttributeError", "'NoneType' object has no attribute 'predict'")
    ELSE IF ~AllFinite(x) THEN Raised("ValueError", "Input X contains NaN or infinity")
    ELSE IF m = "strlabel" THEN Returned(StrLabel, 0)
    ELSE Returned(IntLabel(IF Score(x) >= 50 THEN 1 ELSE 0), 0)

\* model.predict_proba(features_array)[0][1]
ModelPredictProba(m, x) ==
    IF m = "None"
    THEN LookupFailed("AttributeError", "'NoneType' object has no attribute 'predict_proba'")
    ELSE IF m = "noproba"
    THEN LookupFailed("AttributeError", "'Estimator' object has no attribute 'predict_proba'")
    ELSE IF ~AllFinite(x) THEN Raised("ValueError", "Input X contains NaN or infinity")
    ELSE Returned(IntLabel(0), Score(x))

\* ------------------------------------------------------------------------
\* log(level, message, **kwargs).  With cloud_logger unset (development
\* mode) the call goes to the standard logging module and returns.  With a
\* cloud logger, log_struct may raise: "raise" is an exception that is
\* neither a ValueError nor a TypeError (the backend is unreachable),
\* "raise_value" one that is (the entry cannot be converted).
\* ------------------------------------------------------------------------
LogOutcomesOf(cloud) == IF cloud THEN {"ok", "raise", "raise_value"} ELSE {"ok"}

LogError(o) ==
    IF o = "raise_value" THEN [type |-> "TypeError", msg |-> "log entry cannot be converted"]
    ELSE [type |-> "ServiceUnavailable", msg |-> "503 logging backend unavailable"]

Event(level, message, value) == [level |-> level, msg |-> message, value |-> value]

NoExc == [type |-> "", msg |-> ""]
Exc(type, msg) == [type |-> type, msg |-> msg]

\* ------------------------------------------------------------------------
\* The pieces of predict()
\* ------------------------------------------------------------------------
\* line 89
ModelNotLoaded(m) == m = "None"

\* request.json, line 93
JsonFails(b) == b.kind \in {"invalid", "empty"}

\* data.get(name) is None
IsNone(v) == v.j \in {"absent", "null"}

DefaultOf(i) == Fin(IF i = 6 THEN DefaultAge * 10 ELSE 0)

\* Variant of Coerce without the None test: float(data.get(name, d)).
Coerce_noNoneTest(v, i) == IF v.j = "absent" THEN Ok(DefaultOf(i)) ELSE PyFloat(v)

\* float(data.get(name, d)) if data.get(name) is not None else d
Coerce(v, i) == IF IsNone(v) THEN Ok(DefaultOf(i)) ELSE PyFloat(v)

\* The six assignments run in order: the first that raises ends the block.
\* FirstFailure is its index, 0 when none raises.
FirstFailure(f) ==
    LET FirstOf(failing) ==
            IF failing = {} THEN 0 ELSE CHOOSE i \in failing : \A k \in failing : i <= k
    IN  FirstOf({i \in 1..6 : Coerce(f[i], i).exc # ""})

ParsedValues(f) == [i \in 1..6 |-> Coerce(f[i], i).val]

\* except (ValueError, TypeError), line 124
InnerCatches(type) == type \in {"ValueError", "TypeError"}

\* Variant of AgeOutOfRange that also rejects AgeMax itself.
AgeOutOfRange_inclusive(age) ==
    LeZero(age) \/ GtAgeMax(age) \/ age = Fin(AgeMax * 10)

\* line 118
AgeOutOfRange(age) == LeZero(age) \/ GtAgeMax(age)

\* line 120
ReplacedAge == Fin(DefaultAge * 10)

\* Variant of FeatureList with Glucose and Pregnancies exchanged.
FeatureList_swapped(v, age) == <<v[2], v[1], v[3], v[4], v[5], age>>

\* line 122
FeatureList(v, age) == <<v[1], v[2], v[3], v[4], v[5], age>>

\* line 127
DefaultFeatures == [i \in 1..6 |-> Fin(IF i = 6 THEN DefaultAge * 10 ELSE 0)]

\* data.get on something that is not a dict
TypeName(kind) ==
    CASE kind = "array" -> "list" [] kind = "string" -> "str"
      [] kind = "integer" -> "int" [] kind = "real" -> "float"
      [] kind = "boolean" -> "bool" [] OTHER -> "NoneType"

Extracted(features, parsed, evs) ==
    [exc |-> NoExc, features |-> features, parsed |-> parsed, events |-> evs]
ExtractRaised(e, parsed, evs) ==
    [exc |-> e, features |-> <<>>, parsed |-> parsed, events |-> evs]

\* the handler of line 124: one log call, then the default vector
ParseFallback(e, parsed, evs, o125) ==
    IF o125 = "ok"
    THEN Extracted(DefaultFeatures, parsed,
                   Append(evs, Event("error", "Error parsing feature values", NoValue)))
    ELSE ExtractRaised(LogError(o125), parsed, evs)

\* an exception e raised inside the try block of lines 100 to 122
InParseBlock(e, parsed, evs, o125) ==
    IF InnerCatches(e.type) THEN ParseFallback(e, parsed, evs, o125)
    ELSE ExtractRaised(e, parsed, evs)

\* Lines 100 to 127 on a dict b, of whose six assignments the k-th is the
\* first to raise (k = 0: none raises and the values are v); o109, o119 and
\* o125 are the outcomes of the log calls of those lines.
ExtractParsed(b, k, v, o109, o119, o125) ==
    LET info == <<Event("info", "Parsed feature values", NoValue)>>
        warn == Event("warning", "Age value outside reasonable range", v[6])
        Raising(r) == Exc(r.exc, r.msg)
    IN  IF k # 0 THEN InParseBlock(Raising(Coerce(b.f[k], k)), <<>>, <<>>, o125)
        ELSE IF o109 # "ok" THEN InParseBlock(LogError(o109), v, <<>>, o125)
        ELSE IF ~AgeOutOfRange(v[6]) THEN Extracted(FeatureList(v, v[6]), v, info)
        ELSE IF o119 # "ok" THEN InParseBlock(LogError(o119), v, info, o125)
        ELSE Extracted(FeatureList(v, ReplacedAge), v, Append(info, warn))

\* lines 100 to 127 on request data b: data.get fails on what is no dict
ExtractOutcome(b, k, v, o109, o119, o125) ==
    IF b.kind # "object"
    THEN ExtractRaised(
            Exc("AttributeError", "'" \o TypeName(b.kind) \o "' object has no attribute 'get'"),
            <<>>, <<>>)
    ELSE ExtractParsed(b, k, v, o109, o119, o125)

ExtractFeatures(b, o109, o119, o125) ==
    ExtractOutcome(b, FirstFailure(b.f), ParsedValues(b.f), o109, o119, o125)

\* Variant of RiskLevel with strict comparisons.
RiskLevel_strict(p) ==
    IF p > HighThreshold THEN "High Risk"
    ELSE IF p > MediumThreshold THEN "Medium Risk"
    ELSE "Low Risk"

\* lines 137 to 141, p in hundredths
RiskLevel(p) ==
    IF p >= HighThreshold THEN "High Risk"
    ELSE IF p >= MediumThreshold THEN "Medium Risk"
    ELSE "Low Risk"

\* Responses
NoResp ==
    [status |-> 0, kind |-> "none", prediction |-> 0, probability |-> 0,
     risk_level |-> "", error |-> ""]
\* jsonify(result), lines 143 to 150
ResultResponse(prediction, p, risk) ==
    [status |-> 200, kind |-> "json_result", prediction |-> prediction,
     probability |-> p, risk_level |-> risk, error |-> ""]
\* Variant of ErrorResponse that drops the status, so Flask answers 200.
ErrorResponse_status200(msg) ==
    [status |-> 200, kind |-> "json_error", prediction |-> 0, probability |-> 0,
     risk_level |-> "", error |-> msg]
\* jsonify({'error': str(e)}), 500, line 154
ErrorResponse(msg) ==
    [status |-> 500, kind |-> "json_error", prediction |-> 0, probability |-> 0,
     risk_level |-> "", error |-> msg]
\* 'pong', 200, line 83
PongResponse ==
    [status |-> 200, kind |-> "text_pong", prediction |-> 0, probability |-> 0,
     risk_level |-> "", error |-> ""]
\* what Flask answers when the view function itself raises
UnhandledResponse ==
    [status |-> 500, kind |-> "html", prediction |-> 0, probability |-> 0,
     risk_level |-> "", error |-> ""]

\* ------------------------------------------------------------------------
\* State
\* ------------------------------------------------------------------------
VARIABLES
    model,          \* the module-level model handle (lines 67 to 78)
    cloud_logger,   \* whether a cloud logger was set up (lines 14 to 32)
    pc,             \* where the request in service stands
    route,          \* "ping" or "predict" ("none" when idle)
    body,           \* the body of the request in service
    bodyRead,       \* whether request.json has been evaluated (line 93)
    parsed,         \* the six values after lines 101 to 106
    features,       \* the list of line 122 or 127
    calls,          \* the inference calls made, each with its argument
    prediction,     \* model.predict(...)[0]
    probability,    \* model.predict_proba(...)[0][1], in hundredths
    exc,            \* the exception on its way to the handler of line 152
    resp,           \* the response sent
    events,         \* the log events emitted for this request
    pinned,         \* observer: one earlier request and its response
    parked          \* the locals of the request the other thread serves

vars ==
    <<model, cloud_logger, pc, route, body, bodyRead, parsed, features, calls,
      prediction, probability, exc, resp, events, pinned, parked>>

LogOutcomes == LogOutcomesOf(cloud_logger)

Unpinned(on) ==
    [on |-> on, set |-> FALSE, body |-> NoBody, resp |-> NoResp, between |-> FALSE]

\* the bodies the observer may pin
ReplayBodies ==
    {ExampleBody,
     Object(<<Absent, JStr(Text(<<"a", "b", "c">>)), JInt(80), JInt(100), JFloat(325),
              JInt(45)>>),
     Object(<<JBigInt, JInt(150), Absent, JNull, Absent, JNaN>>)}

\* the bodies clients send while the observer is on: those it may pin, and
\* an empty object, an Age that is replaced, a vector the estimator rejects,
\* a body that is no JSON and one that is no object
ObservedBodies ==
    ReplayBodies \cup
        {EmptyObject, Object(<<Absent, Absent, Absent, Absent, Absent, JInf>>),
         Object(<<JInf, Absent, Absent, Absent, Absent, JStr(<<160, 52, 53, 133>>)>>),
         NonObject("invalid"), NonObject("array")}
ClientBodies == IF pinned.on THEN ObservedBodies ELSE Bodies

\* the locals of the request in service, and those of no request
Locals ==
    [pc |-> pc, route |-> route, body |-> body, bodyRead |-> bodyRead,
     parsed |-> parsed, features |-> features, calls |-> calls,
     prediction |-> prediction, probability |-> probability, exc |-> exc,
     resp |-> resp, events |-> events]
IdleLocals ==
    [pc |-> "idle", route |-> "none", body |-> NoBody, bodyRead |-> FALSE,
     parsed |-> <<>>, features |-> <<>>, calls |-> <<>>,
     prediction |-> IntLabel(0), probability |-> 0, exc |-> NoExc,
     resp |-> NoResp, events |-> <<>>]

IdleRequest ==
    /\ parked = IdleLocals
    /\ pc = "idle"
    /\ route = "none"
    /\ body = NoBody
    /\ bodyRead = FALSE
    /\ parsed = <<>>
    /\ features = <<>>
    /\ calls = <<>>
    /\ prediction = IntLabel(0)
    /\ probability = 0
    /\ exc = NoExc
    /\ resp = NoResp
    /\ events = <<>>

\* Three start-ups share the steps below.  Init is development mode, where
\* log() goes to the standard logging module only and cannot raise; InitCloud
\* adds the start-up with a cloud logger, whose log_struct may raise at any
\* call; InitReplay is Init with the observer on.  No request is in service
\* in either thread.
\* Development mode: no cloud logger, the observer off.
Init ==
    /\ model \in ModelKinds
    /\ cloud_logger = FALSE
    /\ pinned = Unpinned(FALSE)
    /\ IdleRequest

\* Production or development mode: a cloud logger may be set up.
InitCloud ==
    /\ model \in ModelKinds
    /\ cloud_logger \in BOOLEAN
    /\ pinned = Unpinned(FALSE)
    /\ IdleRequest

\* Development mode with the observer on.
InitReplay ==
    /\ model \in ModelKinds
    /\ cloud_logger = FALSE
    /\ pinned = Unpinned(TRUE)
    /\ IdleRequest

\* ------------------------------------------------------------------------
\* GET /ping, lines 80 to 83
\* ------------------------------------------------------------------------
Ping ==
    /\ pc = "idle"
    /\ \E o82 \in LogOutcomes :
        /\ events' = IF o82 = "ok"
                     THEN <<Event("info", "Health check received", NoValue)>>
                     ELSE <<>>
        /\ resp' = IF o82 = "ok" THEN PongResponse ELSE UnhandledResponse
    /\ route' = "ping"
    /\ pc' = "done"
    /\ UNCHANGED <<model, cloud_logger, body, bodyRead, parsed, features, calls,
                   prediction, probability, exc, pinned, parked>>

\* ------------------------------------------------------------------------
\* POST /predict, lines 88 to 97: the model check, request.json, two log calls
\* ------------------------------------------------------------------------
\* Variant of ReceiveOutcome that evaluates request.json before the model check.
ReceiveOutcome_readsFirst(b, o1, o2) ==
    IF JsonFails(b)
    THEN [read |-> TRUE, exc |-> Exc("BadRequest", "400 Bad Request"), events |-> <<>>]
    ELSE IF ModelNotLoaded(model)
    THEN [read |-> TRUE, exc |-> Exc("Exception", "Model is not loaded"), events |-> <<>>]
    ELSE [read |-> TRUE, exc |-> NoExc, events |-> <<>>]

ReceiveOutcome(b, o1, o2) ==
    IF ModelNotLoaded(model)
    THEN IF o1 = "ok"
         THEN [read |-> FALSE, exc |-> Exc("Exception", "Model is not loaded"),
               events |-> <<Event("error", "Model is not loaded, cannot make prediction",
                                  NoValue)>>]
         ELSE [read |-> FALSE, exc |-> LogError(o1), events |-> <<>>]
    ELSE IF JsonFails(b)
    THEN [read |-> TRUE, exc |-> Exc("BadRequest", "400 Bad Request"), events |-> <<>>]
    ELSE IF o1 # "ok"
    THEN [read |-> TRUE, exc |-> LogError(o1), events |-> <<>>]
    ELSE IF o2 # "ok"
    THEN [read |-> TRUE, exc |-> LogError(o2),
          events |-> <<Event("info", "Received prediction request", NoValue)>>]
    ELSE [read |-> TRUE, exc |-> NoExc,
          events |-> <<Event("info", "Received prediction request", NoValue),
                       Event("info", "Extracting features from request data", NoValue)>>]

Receive ==
    /\ pc = "idle"
    /\ \E b \in ClientBodies, o1 \in LogOutcomes, o2 \in LogOutcomes :
        LET r == ReceiveOutcome(b, o1, o2)
        IN  /\ body' = b
            /\ bodyRead' = r.read
            /\ exc' = r.exc
            /\ events' = r.events
            /\ pc' = IF r.exc = NoExc THEN "extract" ELSE "except"
    /\ route' = "predict"
    /\ UNCHANGED <<model, cloud_logger, parsed, features, calls, prediction,
                   probability, resp, pinned, parked>>

\* ------------------------------------------------------------------------
\* lines 100 to 127: the parsing block and its handler
\* ------------------------------------------------------------------------
\* what lines 100 to 127 can come to on b, over the outcomes of the log calls
ExtractOutcomes(b, k, v) ==
    {ExtractOutcome(b, k, v, o109, o119, o125) :
        o109 \in LogOutcomes, o119 \in LogOutcomes, o125 \in LogOutcomes}

Extract ==
    /\ pc = "extract"
    /\ \E r \in ExtractOutcomes(body, FirstFailure(body.f), ParsedValues(body.f)) :
            /\ features' = r.features
            /\ parsed' = r.parsed
            /\ events' = events \o r.events
            /\ exc' = r.exc
            /\ pc' = IF r.exc = NoExc THEN "infer" ELSE "except"
    /\ UNCHANGED <<model, cloud_logger, route, body, bodyRead, calls, prediction,
                   probability, resp, pinned, parked>>

\* ------------------------------------------------------------------------
\* lines 129 to 134: one log call, then predict and predict_proba on the
\* same single-row array
\* ------------------------------------------------------------------------
Call(op, x) == [op |-> op, x |-> x]

InferOutcome(m, x, o129) ==
    LET r1 == ModelPredict(m, x)
        r2 == ModelPredictProba(m, x)
        logged == <<Event("info", "Final features for prediction", NoValue)>>
    IN  IF o129 # "ok"
        THEN [exc |-> LogError(o129), calls |-> <<>>, label |-> IntLabel(0), p |-> 0,
              events |-> <<>>]
        ELSE IF r1.exc # ""
        THEN [exc |-> Exc(r1.exc, r1.msg),
              calls |-> IF r1.called THEN <<Call("predict", x)>> ELSE <<>>,
              label |-> IntLabel(0), p |-> 0, events |-> logged]
        ELSE IF r2.exc # ""
        THEN [exc |-> Exc(r2.exc, r2.msg),
              calls |-> IF r2.called
                        THEN <<Call("predict", x), Call("predict_proba", x)>>
                        ELSE <<Call("predict", x)>>,
              label |-> r1.label, p |-> 0, events |-> logged]
        ELSE [exc |-> NoExc, calls |-> <<Call("predict", x), Call("predict_proba", x)>>,
              label |-> r1.label, p |-> r2.p, events |-> logged]

Infer ==
    /\ pc = "infer"
    /\ \E o129 \in LogOutcomes :
        LET r == InferOutcome(model, features, o129)
        IN  /\ calls' = r.calls
            /\ prediction' = r.label
            /\ probability' = r.p
            /\ events' = events \o r.events
            /\ exc' = r.exc
            /\ pc' = IF r.exc = NoExc THEN "assemble" ELSE "except"
    /\ UNCHANGED <<model, cloud_logger, route, body, bodyRead, parsed, features,
                   resp, pinned, parked>>

\* ------------------------------------------------------------------------
\* lines 136 to 150: the risk level, the result, one log call, the response
\* ------------------------------------------------------------------------
AssembleOutcome(label, p, o149) ==
    IF ~label.isInt
    THEN [exc |-> Exc("ValueError",
                      "invalid literal for int() with base 10: '" \o label.text \o "'"),
          resp |-> NoResp, events |-> <<>>]
    ELSE IF o149 # "ok"
    THEN [exc |-> LogError(o149), resp |-> NoResp, events |-> <<>>]
    ELSE [exc |-> NoExc, resp |-> ResultResponse(label.n, p, RiskLevel(p)),
          events |-> <<Event("info", "Prediction computed successfully", NoValue)>>]

Assemble ==
    /\ pc = "assemble"
    /\ \E o149 \in LogOutcomes :
        LET r == AssembleOutcome(prediction, probability, o149)
        IN  /\ resp' = r.resp
            /\ events' = events \o r.events
            /\ exc' = r.exc
            /\ pc' = IF r.exc = NoExc THEN "done" ELSE "except"
    /\ UNCHANGED <<model, cloud_logger, route, body, bodyRead, parsed, features,
                   calls, prediction, probability, pinned, parked>>

\* ------------------------------------------------------------------------
\* lines 152 to 154: except Exception.  An exception raised by the log call
\* of line 153 leaves the view function, and Flask answers for it.
\* ------------------------------------------------------------------------
\* Variant of HandleException that also drops the model handle.
HandleException_unloads ==
    /\ pc = "except"
    /\ resp' = ErrorResponse(exc.msg)
    /\ events' = events
    /\ pc' = "done"
    /\ model' = "None"
    /\ UNCHANGED <<cloud_logger, route, body, bodyRead, parsed, features,
                   calls, prediction, probability, exc, pinned, parked>>

HandleException ==
    /\ pc = "except"
    /\ \E o153 \in LogOutcomes :
        /\ resp' = IF o153 = "ok" THEN ErrorResponse(exc.msg) ELSE UnhandledResponse
        /\ events' = IF o153 = "ok"
                     THEN Append(events, Event("error", "Error during prediction", NoValue))
                     ELSE events
    /\ pc' = "done"
    /\ UNCHANGED <<model, cloud_logger, route, body, bodyRead, parsed, features,
                   calls, prediction, probability, exc, pinned, parked>>

\* ------------------------------------------------------------------------
\* The response has gone out; the request's locals are dropped.  The
\* observer, when on and empty, may keep this request and its response; once
\* it holds one, it notes whether a different request has been served since.
\* ------------------------------------------------------------------------
Complete ==
    /\ pc = "done"
    /\ \E keep \in (IF pinned.on /\ ~pinned.set /\ body \in ReplayBodies
                    THEN BOOLEAN ELSE {FALSE}) :
        pinned' = IF keep
                  THEN [on |-> TRUE, set |-> TRUE, body |-> body, resp |-> resp,
                        between |-> FALSE]
                  ELSE IF pinned.set /\ (route = "ping" \/ body # pinned.body)
                  THEN [pinned EXCEPT !.between = TRUE]
                  ELSE pinned
    /\ pc' = "idle"
    /\ route' = "none"
    /\ body' = NoBody
    /\ bodyRead' = FALSE
    /\ parsed' = <<>>
    /\ features' = <<>>
    /\ calls' = <<>>
    /\ prediction' = IntLabel(0)
    /\ probability' = 0
    /\ exc' = NoExc
    /\ resp' = NoResp
    /\ events' = <<>>
    /\ UNCHANGED <<model, cloud_logger, parked>>

\* ------------------------------------------------------------------------
\* line 158: app.run serves each request in a thread of its own, so a second
\* request may be taken up while one is in service.  The variables above
\* are the locals of the request whose thread runs; a switch parks them and
\* resumes the other thread where it stood.  The model handle and the cloud
\* logger are the module's and are shared.
\* ------------------------------------------------------------------------
Switch ==
    /\ parked' = Locals
    /\ pc' = parked.pc
    /\ route' = parked.route
    /\ body' = parked.body
    /\ bodyRead' = parked.bodyRead
    /\ parsed' = parked.parsed
    /\ features' = parked.features
    /\ calls' = parked.calls
    /\ prediction' = parked.prediction
    /\ probability' = parked.probability
    /\ exc' = parked.exc
    /\ resp' = parked.resp
    /\ events' = parked.events
    /\ UNCHANGED <<model, cloud_logger, pinned>>

Next ==
    \/ Ping
    \/ Receive
    \/ Extract
    \/ Infer
    \/ Assemble
    \/ HandleException
    \/ Complete

\* two threads
NextThreaded ==
    \/ Next
    \/ Switch

Spec == Init /\ [][Next]_vars
SpecCloud == InitCloud /\ [][Next]_vars
SpecReplay == InitReplay /\ [][NextThreaded]_vars

\* ------------------------------------------------------------------------
\* Properties
\* ------------------------------------------------------------------------
Answered == pc = "done"
PredictAnswered == pc = "done" /\ route = "predict"

\* the field is absent or null in the body
Missing(b, i) == b.f[i].j \in {"absent", "null"}
\* float() succeeds for every field the body holds
AllCoerce(b) == b.kind = "object" /\ \A i \in 1..6 : Missing(b, i) \/ PyFloat(b.f[i]).exc = ""
\* float() raises for some field the body holds
SomeCoercionFails(b) ==
    b.kind = "object" /\ \E i \in 1..6 : ~Missing(b, i) /\ PyFloat(b.f[i]).exc # ""
\* the value field i stands for when every field coerces
ValueOf(b, i) ==
    IF Missing(b, i) THEN (IF i = 6 THEN Fin(300) ELSE Fin(0)) ELSE PyFloat(b.f[i]).val
AllDefaults == <<Fin(0), Fin(0), Fin(0), Fin(0), Fin(0), Fin(300)>>
IsWarning(e) == e.level = "warning"
Warnings == SelectSeq(events, IsWarning)

\* C1: with no model handle loaded, every answered POST /predict is a 500
\* with {"error": "Model is not loaded"}, sent without reading the body and
\* without an inference call, and every answered GET /ping is 200 'pong'.
C1_ModelUnavailable ==
    (model = "None" /\ Answered) =>
        IF route = "predict"
        THEN /\ resp.status = 500
             /\ resp.kind = "json_error"
             /\ resp.error = "Model is not loaded"
             /\ ~bodyRead
             /\ calls = <<>>
        ELSE resp.status = 200 /\ resp.kind = "text_pong"

C1_Witness ==
    /\ model = "None"
    /\ PredictAnswered
    /\ body = NonObject("invalid")
    /\ resp.status = 500
    /\ resp.error = "Model is not loaded"

\* C2: with a working classifier and a JSON-object body, whenever float()
\* fails for some field, for whatever reason, the request is scored on the
\* default vector and answered with 200.
C2_AnyCoercionFailureFallsBack ==
    (PredictAnswered /\ model = "clf" /\ SomeCoercionFails(body)) =>
        /\ features = AllDefaults
        /\ calls # <<>>
        /\ resp.status = 200

\* The part of C2 that holds under Spec: when the first field to fail raises
\* ValueError or TypeError, the request is scored on the default vector.
CaughtFailuresFallBack ==
    (PredictAnswered /\ model = "clf" /\ body.kind = "object" /\ FirstFailure(body.f) # 0
        /\ PyFloat(body.f[FirstFailure(body.f)]).exc \in {"ValueError", "TypeError"}) =>
        /\ features = AllDefaults
        /\ calls # <<>>
        /\ resp.status = 200

\* the whole part of a finite float that is not negative, 256 standing for
\* every whole part of more than eight bits
WholePart(age) ==
    IF BitLen(age.k) + age.q > 8 THEN 256
    ELSE IF age.q >= 0 THEN ToInt(age.k) * Pow2(age.q)
    ELSE ToInt(ShiftRight(age.k, 0 - age.q))
\* a finite float above 120: one with a fraction is not whole (k is odd)
Above120(age) ==
    /\ ~age.neg
    /\ WholePart(age) > 120 \/ (WholePart(age) = 120 /\ age.q < 0)
InsideAgeRange(age) == age.c = "fin" /\ ~age.neg /\ age.k # <<>> /\ ~Above120(age)

\* C3: the Age element of every vector passed to an inference call is
\* greater than 0 and at most 120.
C3_AgeInRangeAtInference ==
    \A k \in 1..Len(calls) : InsideAgeRange(calls[k].x[6])

\* The part of C3 that holds under Spec: NaN is the only Age outside (0, 120]
\* that reaches an inference call.
AgeInRangeUnlessNaN ==
    \A k \in 1..Len(calls) :
        LET age == calls[k].x[6]
        IN  age.c = "nan" \/ InsideAgeRange(age)

\* The outcome of a request when every log call returns.
QuietFeatures(b) == ExtractFeatures(b, "ok", "ok", "ok").features
QuietPredict(b) ==
    LET r == ReceiveOutcome(b, "ok", "ok")
        x == ExtractFeatures(b, "ok", "ok", "ok")
        i == InferOutcome(model, x.features, "ok")
        a == AssembleOutcome(i.label, i.p, "ok")
    IN  IF r.exc # NoExc THEN ErrorResponse(r.exc.msg)
        ELSE IF x.exc # NoExc THEN ErrorResponse(x.exc.msg)
        ELSE IF i.exc # NoExc THEN ErrorResponse(i.exc.msg)
        ELSE IF a.exc # NoExc THEN ErrorResponse(a.exc.msg)
        ELSE a.resp
QuietResponse(rt, b) == IF rt = "ping" THEN PongResponse ELSE QuietPredict(b)

\* C4: a log call that raises changes neither the response of the request
\* nor the feature vector used for inference.
C4_LoggingNeverChangesOutcome ==
    /\ Answered => resp = QuietResponse(route, body)
    /\ features # <<>> => features = QuietFeatures(body)

\* C5: every POST /predict ends with exactly one response, either a 200
\* with a JSON result object or a 500 with the JSON object {"error": message
\* of the exception raised}: nothing is sent before the request ends, a
\* request that raised is on its way to the handler of line 152 with that
\* exception, and a request in service stands at one of the four positions
\* from which predict() steps on.
C5_AlwaysOneJsonResponse ==
    /\ PredictAnswered =>
        \/ /\ resp.status = 200
           /\ resp.kind = "json_result"
           /\ resp.risk_level \in {"Low Risk", "Medium Risk", "High Risk"}
           /\ exc = NoExc
        \/ /\ resp.status = 500
           /\ resp.kind = "json_error"
           /\ exc # NoExc
           /\ resp.error = exc.msg
    /\ pc # "done" => resp = NoResp
    /\ (route = "predict" /\ pc # "done") => pc \in {"extract", "infer", "assemble", "except"}
    /\ (pc = "except") <=> (route = "predict" /\ pc # "done" /\ exc # NoExc)

C5_Witness ==
    /\ PredictAnswered
    /\ model = "noproba"
    /\ Len(calls) = 1
    /\ resp.status = 500
    /\ resp.kind = "json_error"

\* C6: the risk level of every 200 response follows from its probability p
\* alone: High Risk exactly when p >= 0.7, Medium Risk exactly when
\* 0.4 <= p < 0.7, Low Risk exactly when p < 0.4; the three tiers are
\* exclusive and exhaustive over [0, 1].
TierOf(p) ==
    {t \in {"High Risk", "Medium Risk", "Low Risk"} :
        \/ t = "High Risk" /\ p >= 70
        \/ t = "Medium Risk" /\ p >= 40 /\ p < 70
        \/ t = "Low Risk" /\ p < 40}
C6_RiskLevelByThresholds ==
    /\ \A p \in 0..100 : TierOf(p) = {RiskLevel(p)}
    /\ (Answered /\ resp.kind = "json_result") =>
        /\ resp.probability \in 0..100
        /\ TierOf(resp.probability) = {resp.risk_level}

C6_Witness ==
    /\ Answered
    /\ resp.kind = "json_result"
    /\ resp.probability = 70
    /\ resp.risk_level = "High Risk"

\* C7: with a loaded model and a JSON-object body whose fields all coerce,
\* each absent or null field stands in the vector as its own default (0, and
\* 30 for Age) while each field the body holds stands as its coerced value
\* (Age subject to the range rule); the body {} is scored as
\* [0, 0, 0, 0, 0, 30] and, by a working classifier, answered with 200.
C7_PerFieldDefaults ==
    /\ (model # "None" /\ AllCoerce(body) /\ pc \in {"infer", "assemble", "done"}) =>
        /\ DOMAIN parsed = 1..6
        /\ DOMAIN features = 1..6
        /\ \A i \in 1..6 : parsed[i] = ValueOf(body, i)
        /\ \A i \in 1..5 : features[i] = ValueOf(body, i)
        /\ Missing(body, 6) => features[6] = Fin(300)
        /\ features[6] \in {ValueOf(body, 6), Fin(300)}
    /\ (model = "clf" /\ body = EmptyObject /\ Answered) =>
        /\ features = AllDefaults
        /\ calls = <<Call("predict", AllDefaults), Call("predict_proba", AllDefaults)>>
        /\ resp.status = 200

C7_Witness ==
    /\ Answered
    /\ model = "clf"
    /\ body = Object(<<Absent, JNull, JInt(80), JNull, JFloat(325), Absent>>)
    /\ features = <<Fin(0), Fin(0), Fin(800), Fin(0), Fin(325), Fin(300)>>
    /\ resp.status = 200

\* C8: a request with the same body as an earlier one gets the same
\* response, whatever was served in between or is in service in the other
\* thread; a request that has completed leaves its thread with no locals;
\* and no step changes the model handle.
C8_SameBodySameResponse ==
    /\ [](PredictAnswered /\ pinned.set /\ body = pinned.body => resp = pinned.resp)
    /\ [](pc = "idle" => Locals = IdleLocals)
    /\ [](parked.pc = "idle" => parked = IdleLocals)
    /\ [][model' = model]_vars

\* the second request is answered while a request with another body stands
\* past its inference calls in the other thread, after a different request
\* was served in between
C8_Witness ==
    /\ PredictAnswered
    /\ pinned.set
    /\ pinned.between
    /\ body = pinned.body
    /\ resp = pinned.resp
    /\ resp.status = 200
    /\ parked.pc \in {"assemble", "except"}
    /\ parked.body # body
    /\ parked.calls # <<>>

\* C9: when all six fields coerce, Age stands in the vector as 30 exactly
\* when the coerced Age is <= 0 or > 120 and as the coerced Age otherwise,
\* and one warning carrying the rejected value is logged exactly when it was
\* replaced.
Rejected(age) ==
    \/ age.c = "ninf"
    \/ age.c = "inf"
    \/ age.c = "fin" /\ (age.neg \/ age.k = <<>> \/ Above120(age))
C9_AgeReplacedExactlyOutOfRange ==
    (model # "None" /\ AllCoerce(body) /\ pc \in {"infer", "assemble", "done"}) =>
        LET age == ValueOf(body, 6)
        IN  /\ DOMAIN features = 1..6
            /\ features[6] = IF Rejected(age) THEN Fin(300) ELSE age
            /\ Warnings = IF Rejected(age)
                          THEN <<Event("warning", "Age value outside reasonable range", age)>>
                          ELSE <<>>

C9_Witness ==
    /\ Answered
    /\ body.kind = "object"
    /\ body.f[6] = JInt(121)
    /\ AllCoerce(body)
    /\ Len(features) = 6
    /\ features[6] = Fin(300)
    /\ Len(Warnings) = 1
    /\ Warnings[1].value = Fin(1210)

\* C10: every inference call receives the six-element vector of the request,
\* predict and predict_proba the same one; when all fields coerce its first
\* five elements are the coerced Pregnancies, Glucose, BloodPressure, Insulin
\* and BMI, unchanged whatever their values and whether or not Age was
\* replaced.
C10_VectorShapeAndFrame ==
    /\ \A k \in 1..Len(calls) : Len(calls[k].x) = 6 /\ calls[k].x = features
    /\ Len(calls) <= 2
    /\ Len(calls) >= 1 => calls[1].op = "predict"
    /\ Len(calls) = 2 => calls[2].op = "predict_proba"
    /\ (AllCoerce(body) /\ calls # <<>>) =>
        \A k \in 1..Len(calls) : \A i \in 1..5 : calls[k].x[i] = ValueOf(body, i)

C10_Witness ==
    /\ Answered
    /\ Len(calls) = 2
    /\ body.kind = "object"
    /\ body.f[3] = JInt(1000000)
    /\ body.f[5] = JInt(0 - 1)
    /\ body.f[6] = JInt(121)
    /\ calls[2].x[3] = Fin(10000000)
    /\ calls[2].x[5] = Fin(0 - 10)
    /\ calls[2].x[6] = Fin(300)

====
